---- MODULE Spec2Model ----
(***************************************************************************)
(* Model of src/app.py: the Streamlit dashboard script of the repository.  *)
(*                                                                         *)
(* The script is executed top to bottom once per render cycle.  The state  *)
(* that outlives a cycle is the st.cache_data store behind                 *)
(* load_transactions / load_balances (ttl = 300 s), the values of the      *)
(* sidebar widgets, and the spreadsheet itself.  An action is one whole    *)
(* script run: a plain rerun, a run started by changing one sidebar widget *)
(* (users, types, date range), or the "Refresh Data" button (cache clear   *)
(* followed by st.rerun()).  Two more actions are the environment: the     *)
(* passing of wall-clock time and an edit of the spreadsheet.              *)
(*                                                                         *)
(* A DataFrame is [columns, rows]: pd.DataFrame([]) built from an empty    *)
(* sheet has no columns at all, a frame filtered down to zero rows keeps   *)
(* them.  Cells carry the dtype of their column so that an in-place        *)
(* conversion (to_datetime, astype(str)) is visible in the value.  An      *)
(* exception ends the run at the line that raises it.                      *)
(*                                                                         *)
(* Spec runs everything on small sheets (the store, the clock, the edits); *)
(* SpecTx and SpecBal run sessions shorter than the ttl over every         *)
(* Transactions sheet, resp. every CurrentBalances sheet, within bounds.   *)
(***************************************************************************)
EXTENDS Integers, Sequences, FiniteSets, TLC

\* ------------------------------------------------------------------ bounds
MaxTx == 2            \* rows of the "Transactions" sheet
MaxBal == 2           \* rows of the "CurrentBalances" sheet
MaxDay == 2           \* calendar days 1..MaxDay
MaxTicks == 2         \* clock steps taken in a behaviour

\* -------------------------------------------------------- program constants
TTL == 300            \* @st.cache_data(ttl=300)

Tables == {"Transactions", "CurrentBalances"}

\* ------------------------------------------------------------ sheet cells
TxUsers == {"A", "B"}
BalUsers == {"A", "C"}
TxTypes == {"credit", "debit"}
Balances == {0, 200}

\* The first day of the sheet holds entries stamped at midnight (imported
\* opening rows), later days hold entries made during the day.
HourOf(d) == IF d = 1 THEN 0 ELSE 10

\* Credits are entered with a positive amount and debits with a negative one.
AmountOf(ty) == IF ty = "credit" THEN 100 ELSE -50

\* A "Timestamp" cell as get_all_records() returns it: a string that is
\* empty, malformed, or a well-formed date and time.
RawTs(kind, d, h) == [dtype |-> "object", kind |-> kind, day |-> d, hour |-> h]

NaT == [dtype |-> "datetime64", kind |-> "NaT", day |-> 0, hour |-> 0]

Datetime(d, h) == [dtype |-> "datetime64", kind |-> "ok", day |-> d, hour |-> h]

TimestampCells ==
    {RawTs("empty", 0, 0), RawTs("bad", 0, 0)}
        \cup {RawTs("ok", d, HourOf(d)) : d \in 1..MaxDay}

\* Phone numbers come back from the sheet as numbers.
PhoneCell(u) == [dtype |-> "int64", user |-> u]

TxRows ==
    {[Timestamp |-> ts, userName |-> u, phoneNumber |-> PhoneCell(u),
      type |-> ty, amount |-> AmountOf(ty)] :
        ts \in TimestampCells, u \in TxUsers, ty \in TxTypes}

\* An account that was never topped up has an empty "Last Updated" cell.
LastUpdatedOf(b) == IF b = 0 THEN RawTs("empty", 0, 0) ELSE RawTs("ok", 1, 0)

BalRows ==
    {[Username |-> u, Phone |-> PhoneCell(u), CurrentBalance |-> b,
      LastUpdated |-> LastUpdatedOf(b)] :
        u \in BalUsers, b \in Balances}

SeqsUpTo(S, n) == UNION {[1..k -> S] : k \in 0..n}

\* ----------------------------------------------------------------- helpers
RECURSIVE Filter(_, _)
\* frame[mask] of pandas on the row list: the rows whose mask entry is TRUE,
\* in their original order.
Filter(rows, mask) ==
    IF rows = <<>> THEN <<>>
    ELSE IF Head(mask) THEN <<Head(rows)>> \o Filter(Tail(rows), Tail(mask))
         ELSE Filter(Tail(rows), Tail(mask))

RECURSIVE SumBalance(_)
SumBalance(rows) ==
    IF rows = <<>> THEN 0 ELSE Head(rows).CurrentBalance + SumBalance(Tail(rows))

\* pd.DataFrame(data) of a list of records: an empty list gives a frame
\* without any column.
DataFrame(data) == [columns |-> data # <<>>, rows |-> data]

NoFrame == [columns |-> FALSE, rows |-> <<>>]

\* -------------------------------------------------------------- fetch cache
NoEntry == [present |-> FALSE, value |-> <<>>, at |-> 0]

\* A store configured with a ttl of one minute instead of five.
FreshOneMinute(entry, t) == entry.present /\ t - entry.at < TTL \div 5

\* An entry of st.cache_data is served while it is younger than its ttl.
Fresh(entry, t) == entry.present /\ t - entry.at < TTL

\* A call of a function decorated with @st.cache_data(ttl=300) at time t:
\* the frame it returns, the entry the store holds afterwards, and whether
\* the spreadsheet was read.
CachedLoad(entry, data, t) ==
    IF Fresh(entry, t)
    THEN [frame |-> DataFrame(entry.value), entry |-> entry, fetched |-> FALSE]
    ELSE [frame |-> DataFrame(data),
          entry |-> [present |-> TRUE, value |-> data, at |-> t],
          fetched |-> TRUE]

\* A store that hands out the stored object itself, as st.cache_resource
\* does: a column assigned in place lands in the store.
WriteShared(entry, frame) == [entry EXCEPT !.value = frame.rows]

\* st.cache_data pickles the value it stores and unpickles a new object for
\* every caller, so a write into the returned frame stays in that frame.
WriteThrough(entry, frame) == entry

load_transactions(c, sh, t) == CachedLoad(c["Transactions"], sh["Transactions"], t)

load_balances(c, sh, t) == CachedLoad(c["CurrentBalances"], sh["CurrentBalances"], t)

\* --------------------------------------------------------- schema normalizer
\* pd.to_datetime of one cell; an empty string is a missing value.
ToDatetime(cell) ==
    IF cell.dtype = "datetime64" THEN cell
    ELSE IF cell.kind = "ok" THEN Datetime(cell.day, cell.hour)
    ELSE NaT

\* pd.to_datetime(column) with the default errors="raise".
TimestampRaises(df) ==
    /\ df.columns
    /\ \E i \in 1..Len(df.rows) :
          /\ df.rows[i].Timestamp.dtype = "object"
          /\ df.rows[i].Timestamp.kind = "bad"

ConvertTimestamp(df) ==
    IF df.columns
    THEN [df EXCEPT !.rows =
            [i \in 1..Len(df.rows) |->
                [df.rows[i] EXCEPT !.Timestamp = ToDatetime(@)]]]
    ELSE df

\* pd.to_datetime(column, format=..., errors="coerce").
ConvertLastUpdated(df) ==
    IF df.columns
    THEN [df EXCEPT !.rows =
            [i \in 1..Len(df.rows) |->
                [df.rows[i] EXCEPT !.LastUpdated = ToDatetime(@)]]]
    ELSE df

AsStr(cell) == [cell EXCEPT !.dtype = "object"]

PhoneNumberAsStr(df) ==
    [df EXCEPT !.rows =
        [i \in 1..Len(df.rows) |-> [df.rows[i] EXCEPT !.phoneNumber = AsStr(@)]]]

PhoneAsStr(df) ==
    [df EXCEPT !.rows =
        [i \in 1..Len(df.rows) |-> [df.rows[i] EXCEPT !.Phone = AsStr(@)]]]

\* ------------------------------------------------------------ sidebar input
\* The options taken from the balance table as well.
usersOfBalances(df_tx, df_bal) ==
    {df_tx.rows[i].userName : i \in 1..Len(df_tx.rows)}
        \cup {df_bal.rows[i].Username : i \in 1..Len(df_bal.rows)}

\* df_transactions["userName"].unique(): the options of "Select Users".
users(df_tx, df_bal) == {df_tx.rows[i].userName : i \in 1..Len(df_tx.rows)}

\* df_transactions["type"].unique(): the options of "Select Transaction Type".
types(df_tx) == {df_tx.rows[i].type : i \in 1..Len(df_tx.rows)}

\* st.date_input("Select Date Range", []): nothing, one date, or a range.
DateRanges ==
    {<<>>} \cup {<<d>> : d \in 1..MaxDay}
        \cup {r \in (1..MaxDay) \X (1..MaxDay) : r[1] <= r[2]}

\* -------------------------------------------------------------- filter engine
\* The user filter without its "if selected_users:" guard.
UserFilterNoBranch(f, selected_users) ==
    [tx |-> [f.tx EXCEPT !.rows =
                Filter(@, [i \in 1..Len(@) |-> @[i].userName \in selected_users])],
     bal |-> [f.bal EXCEPT !.rows =
                Filter(@, [i \in 1..Len(@) |-> @[i].Username \in selected_users])]]

\* if selected_users: both frames are narrowed to the selected users.
UserFilter(f, selected_users) ==
    IF selected_users # {}
    THEN [tx |-> [f.tx EXCEPT !.rows =
                    Filter(@, [i \in 1..Len(@) |-> @[i].userName \in selected_users])],
          bal |-> [f.bal EXCEPT !.rows =
                    Filter(@, [i \in 1..Len(@) |-> @[i].Username \in selected_users])]]
    ELSE f

\* The type filter with the guard the user filter has.
TypeFilterPassThrough(f, selected_type) ==
    IF selected_type # {}
    THEN [tx |-> [f.tx EXCEPT !.rows =
                    Filter(@, [i \in 1..Len(@) |-> @[i].type \in selected_type])],
          bal |-> f.bal]
    ELSE f

\* df_transactions[df_transactions["type"].isin(selected_type)]
TypeFilter(f, selected_type) ==
    [tx |-> [f.tx EXCEPT !.rows =
                Filter(@, [i \in 1..Len(@) |-> @[i].type \in selected_type])],
     bal |-> f.bal]

\* Hours since the start of day 0; pd.to_datetime(date) is that day's midnight.
Instant(d, h) == d * 24 + h

\* Timestamp >= start: a comparison with NaT is False.
GreaterEq(cell, d) == cell.kind = "ok" /\ Instant(cell.day, cell.hour) >= Instant(d, 0)

LessEq(cell, d) == cell.kind = "ok" /\ Instant(cell.day, cell.hour) <= Instant(d, 0)

DateFilter(f, date_range) ==
    IF Len(date_range) = 2
    THEN [tx |-> [f.tx EXCEPT !.rows =
                    Filter(@, [i \in 1..Len(@) |->
                                /\ GreaterEq(@[i].Timestamp, date_range[1])
                                /\ LessEq(@[i].Timestamp, date_range[2])])],
          bal |-> f.bal]
    ELSE f

\* ---------------------------------------------------------- metrics aggregator
total_users(df_bal) == Len(df_bal.rows)

total_balance(df_bal) == SumBalance(df_bal.rows)

total_transactions(df_tx) == Len(df_tx.rows)

\* Series.mean(): NaN for an empty column, else sum / count.
avg_balance(df_bal) ==
    IF Len(df_bal.rows) = 0
    THEN [isNaN |-> TRUE, num |-> 0, den |-> 1]
    ELSE [isNaN |-> FALSE, num |-> SumBalance(df_bal.rows), den |-> Len(df_bal.rows)]

\* Counting the accounts that are not overdrawn instead.
active_users_nonneg(df_bal) ==
    Len(Filter(df_bal.rows, [i \in 1..Len(df_bal.rows) |-> df_bal.rows[i].CurrentBalance >= 0]))

\* len(df_balances[df_balances['Current Balance'] > 0])
active_users(df_bal) ==
    Len(Filter(df_bal.rows, [i \in 1..Len(df_bal.rows) |-> df_bal.rows[i].CurrentBalance > 0]))

\* len(df_transactions[df_transactions["amount"] > 0])
positive_transactions(df_tx) ==
    Len(Filter(df_tx.rows, [i \in 1..Len(df_tx.rows) |-> df_tx.rows[i].amount > 0]))

\* ---------------------------------------------------------------- the script
VARIABLES sheet, cache, now, ticks, out

vars == <<sheet, cache, now, ticks, out>>

NoFrames == [tx |-> NoFrame, bal |-> NoFrame]

NoMetrics ==
    [total_users |-> 0, active_users |-> 0, total_balance |-> 0,
     avg_balance |-> [isNaN |-> FALSE, num |-> 0, den |-> 1],
     total_transactions |-> 0, positive_transactions |-> 0,
     percent |-> [num |-> 0, den |-> 1]]

NoCycle ==
    [trigger |-> "none", at |-> 0, status |-> "none", line |-> 0, fetched |-> {},
     selected_users |-> {}, selected_type |-> {}, date_range |-> <<>>,
     loaded |-> NoFrames, byUser |-> NoFrames, byType |-> NoFrames,
     byDate |-> NoFrames, df_transactions |-> NoFrame, df_balances |-> NoFrame,
     metrics |-> NoMetrics]

\* Lines 93-102, Convert date columns, on what the two loaders returned.  A
\* malformed "Timestamp" aborts the run at line 95.
ConvertDateColumns(lt, lb, raises) ==
    [tx |-> IF raises THEN lt.frame ELSE ConvertTimestamp(lt.frame),
     bal |-> IF raises THEN lb.frame ELSE ConvertLastUpdated(lb.frame),
     raises |-> raises,
     entries |-> [n \in Tables |-> IF n = "Transactions" THEN lt.entry ELSE lb.entry],
     fetched |-> {n \in Tables :
                    IF n = "Transactions" THEN lt.fetched ELSE lb.fetched}]

\* Lines 89-102: Load Data and Convert date columns.
LoadData(c, sh, t) ==
    ConvertDateColumns(load_transactions(c, sh, t), load_balances(c, sh, t),
                       TimestampRaises(load_transactions(c, sh, t).frame))

\* The sidebar widgets exist only in a run that got as far as line 109.
ReachesSidebar(ld) == ~ld.raises /\ ld.tx.columns

\* Streamlit keeps the value of a widget from one run to the next as long as
\* the widget was drawn in the last run with the same options; otherwise the
\* widget starts from its default.
Shown(prev) == prev.status \notin {"none", "ValueError"} /\ prev.line # 109

Toggle(S, x) == IF x \in S THEN S \ {x} ELSE S \cup {x}

\* What the user did to start the run.
NoAction == [kind |-> "none", name |-> "", dates |-> <<>>]

\* st.sidebar.multiselect("Select Users", users, default=users)
selected_users(prev, act, options) ==
    IF Shown(prev) /\ users(prev.loaded.tx, prev.loaded.bal) = options
    THEN IF act.kind = "user" THEN Toggle(prev.selected_users, act.name)
         ELSE prev.selected_users
    ELSE options

\* st.sidebar.multiselect("Select Transaction Type", types, default=types)
selected_type(prev, act, options) ==
    IF Shown(prev) /\ types(prev.loaded.tx) = options
    THEN IF act.kind = "type" THEN Toggle(prev.selected_type, act.name)
         ELSE prev.selected_type
    ELSE options

\* st.sidebar.date_input("Select Date Range", [])
date_range(prev, act) ==
    IF Shown(prev)
    THEN IF act.kind = "dates" THEN act.dates ELSE prev.date_range
    ELSE <<>>

\* Lines 105-117: the values of the three sidebar widgets in this run.
Sidebar(ld, prev, act) ==
    [selected_users |-> selected_users(prev, act, users(ld.tx, ld.bal)),
     selected_type |-> selected_type(prev, act, types(ld.tx)),
     date_range |-> date_range(prev, act)]

\* Lines 119-131, Apply Filters: the frames after each of the three filters.
WithDate(byUser, byType, dr) ==
    [byUser |-> byUser, byType |-> byType, byDate |-> DateFilter(byType, dr)]

WithType(byUser, ty, dr) == WithDate(byUser, TypeFilter(byUser, ty), dr)

ApplyFilters(ld, sb) ==
    WithType(UserFilter([tx |-> ld.tx, bal |-> ld.bal], sb.selected_users),
             sb.selected_type, sb.date_range)

\* Lines 140-175: the numbers of the four metric tiles.
Metrics(df_tx, df_bal) ==
    [total_users |-> total_users(df_bal),
     active_users |-> active_users(df_bal),
     total_balance |-> total_balance(df_bal),
     avg_balance |-> avg_balance(df_bal),
     total_transactions |-> total_transactions(df_tx),
     positive_transactions |-> positive_transactions(df_tx),
     percent |-> IF total_transactions(df_tx) = 0 THEN [num |-> 0, den |-> 1]
                 ELSE [num |-> positive_transactions(df_tx) * 100,
                       den |-> total_transactions(df_tx)]]

\* The exception that ends the run, if any, and the line that raises it:
\* to_datetime on a malformed cell (95), a column of a frame built from an
\* empty sheet (109, 122, 135), the percentage of no transactions (174).
Raised(ld, sb, f) ==
    IF ld.raises THEN [status |-> "ValueError", line |-> 95]
    ELSE IF ~ld.tx.columns THEN [status |-> "KeyError", line |-> 109]
    ELSE IF sb.selected_users # {} /\ ~ld.bal.columns
        THEN [status |-> "KeyError", line |-> 122]
    ELSE IF ~f.byDate.bal.columns THEN [status |-> "KeyError", line |-> 135]
    ELSE IF Len(f.byDate.tx.rows) = 0
        THEN [status |-> "ZeroDivisionError", line |-> 174]
    ELSE [status |-> "done", line |-> 0]

\* What the run leaves on the page and in its variables, up to the line that
\* ended it; at is the time of the run, which the footer shows (line 385).
Display(trigger, t, ld, sb, f, e) ==
    [trigger |-> trigger, at |-> t, status |-> e.status, line |-> e.line,
     fetched |-> ld.fetched,
     selected_users |-> IF e.line \in {95, 109} THEN {} ELSE sb.selected_users,
     selected_type |-> IF e.line \in {95, 109} THEN {} ELSE sb.selected_type,
     date_range |-> IF e.line \in {95, 109} THEN <<>> ELSE sb.date_range,
     loaded |-> IF e.line = 95 THEN NoFrames ELSE [tx |-> ld.tx, bal |-> ld.bal],
     byUser |-> IF e.line \in {95, 109, 122} THEN NoFrames ELSE f.byUser,
     byType |-> IF e.line \in {95, 109, 122} THEN NoFrames ELSE f.byType,
     byDate |-> IF e.line \in {95, 109, 122} THEN NoFrames ELSE f.byDate,
     df_transactions |-> IF e.line \in {95, 109, 122, 135} THEN NoFrame
                         ELSE PhoneNumberAsStr(f.byDate.tx),
     df_balances |-> IF e.line \in {95, 109, 122, 135} THEN NoFrame
                     ELSE PhoneAsStr(f.byDate.bal),
     metrics |-> IF e.line \in {95, 109, 122, 135} THEN NoMetrics
                 ELSE Metrics(PhoneNumberAsStr(f.byDate.tx), PhoneAsStr(f.byDate.bal))]

\* The store after the run.  Lines 95, 98 and 135 assign columns in place:
\* line 95 and 98 to the frames the loaders returned, line 135 to that frame
\* too when no user is selected (df_balances was never replaced by a filtered
\* frame).
Store(ld, sb, e) ==
    [n \in Tables |->
        IF n = "Transactions"
        THEN WriteThrough(ld.entries[n], ld.tx)
        ELSE WriteThrough(ld.entries[n],
                          IF e.line \in {0, 174} /\ sb.selected_users = {}
                          THEN PhoneAsStr(ld.bal) ELSE ld.bal)]

Finish(trigger, t, ld, sb, f, e) ==
    [cache |-> Store(ld, sb, e), out |-> Display(trigger, t, ld, sb, f, e)]

Filtered(trigger, t, ld, sb, f) == Finish(trigger, t, ld, sb, f, Raised(ld, sb, f))

Selected(trigger, t, ld, sb) == Filtered(trigger, t, ld, sb, ApplyFilters(ld, sb))

Loaded(trigger, t, ld, prev, act) == Selected(trigger, t, ld, Sidebar(ld, prev, act))

\* One run of the script, top to bottom, against the store c at time t, after
\* the run prev and the user's action act: the store afterwards and what the
\* run computed and displayed.
Cycle(trigger, c, sh, t, prev, act) ==
    Loaded(trigger, t, LoadData(c, sh, t), prev, act)

\* ------------------------------------------------------------------- actions
\* Rows that differ in user and type only, and balance rows that differ in
\* user only: the inputs of the behaviours that are not about these columns.
PlainTxRows == {r \in TxRows : r.Timestamp = RawTs("ok", 1, 0)}

PlainBalRows == {r \in BalRows : r.CurrentBalance = 200}

\* The transactions of one user, for the behaviours about the store.
CacheTxRows == {r \in PlainTxRows : r.userName = "A"}

StartState ==
    /\ cache = [n \in Tables |-> NoEntry]
    /\ now = 0
    /\ ticks = 0
    /\ out = NoCycle

\* The process starts with an empty store and no run made yet; here on a
\* sheet with some transactions of one user and one balance row.
Init ==
    /\ sheet \in [Transactions : SeqsUpTo(CacheTxRows, MaxTx) \ {<<>>},
                  CurrentBalances : {<<r>> : r \in PlainBalRows}]
    /\ StartState

\* Every "Transactions" sheet of up to MaxTx rows, with at most one balance.
InitTx ==
    /\ sheet \in [Transactions : SeqsUpTo(TxRows, MaxTx),
                  CurrentBalances : {<<>>} \cup {<<r>> : r \in PlainBalRows}]
    /\ StartState

\* Every "CurrentBalances" sheet of up to MaxBal rows, with transactions
\* that differ in user and type.
InitBal ==
    /\ sheet \in [Transactions : SeqsUpTo(PlainTxRows, MaxTx),
                  CurrentBalances : SeqsUpTo(BalRows, MaxBal)]
    /\ StartState

\* The effect of a run on the state: only the store and the run's own
\* variables change.
Ran(r) ==
    /\ cache' = r.cache
    /\ out' = r.out
    /\ UNCHANGED <<sheet, now, ticks>>

Run(trigger, c, act) == Ran(Cycle(trigger, c, sheet, now, out, act))

\* The page is loaded, or rerun with the widgets as they are.
Rerun == Run("rerun", cache, NoAction)

\* The user adds a user to, or removes one from, "Select Users".
SelectUsers ==
    /\ Shown(out)
    /\ \E u \in users(out.loaded.tx, out.loaded.bal) :
          Run("rerun", cache, [NoAction EXCEPT !.kind = "user", !.name = u])

\* The user adds a type to, or removes one from, "Select Transaction Type".
SelectType ==
    /\ Shown(out)
    /\ \E ty \in types(out.loaded.tx) :
          Run("rerun", cache, [NoAction EXCEPT !.kind = "type", !.name = ty])

\* The user picks a date, or a second one, in "Select Date Range".
SelectDates ==
    /\ Shown(out)
    /\ \E dr \in DateRanges \ {out.date_range} :
          Run("rerun", cache, [NoAction EXCEPT !.kind = "dates", !.dates = dr])

\* Lines 85-87: st.cache_data.clear() and st.rerun().
Cleared == [n \in Tables |-> NoEntry]

\* The button is on the page once the script has run.
Refresh ==
    /\ out.status # "none"
    /\ Run("refresh", Cleared, NoAction)

\* Wall-clock time passes between two runs, half a ttl at a time.
Tick ==
    /\ ticks < MaxTicks
    /\ ticks' = ticks + 1
    /\ now' = now + TTL \div 2
    /\ UNCHANGED <<sheet, cache, out>>

\* Somebody records a new transaction in the spreadsheet.
SheetEdit ==
    /\ Len(sheet["Transactions"]) < MaxTx
    /\ \E r \in CacheTxRows :
          sheet' = [sheet EXCEPT !["Transactions"] = Append(@, r)]
    /\ UNCHANGED <<cache, now, ticks, out>>

Next ==
    \/ Rerun
    \/ SelectUsers
    \/ SelectType
    \/ SelectDates
    \/ Refresh
    \/ Tick
    \/ SheetEdit

Spec == Init /\ [][Next]_vars

\* A session in which no time passes and the spreadsheet is not edited.
NextSession ==
    \/ Rerun
    \/ SelectUsers
    \/ SelectType
    \/ SelectDates
    \/ Refresh

SpecTx == InitTx /\ [][NextSession]_vars

\* A session in which, besides, the date range is left empty.
NextUsers ==
    \/ Rerun
    \/ SelectUsers
    \/ SelectType
    \/ Refresh

SpecBal == InitBal /\ [][NextUsers]_vars

\* ---------------------------------------------------------------- properties
\* out is exactly the rows of in at the indices keep, in their order.
ExactlyRows(o, in, keep) ==
    /\ Len(o) = Cardinality(keep)
    /\ \A i \in keep : o[Cardinality({j \in keep : j <= i})] = in[i]

RECURSIVE SumAt(_, _)
SumAt(rows, S) ==
    IF S = {} THEN 0
    ELSE LET i == CHOOSE k \in S : TRUE
         IN  rows[i].CurrentBalance + SumAt(rows, S \ {i})

\* The last run applied the filters / computed the metrics.
FiltersRan == out.status # "none" /\ out.line \notin {95, 109, 122}

MetricsRan == out.status \in {"done", "ZeroDivisionError"}

TxUserNames == {out.loaded.tx.rows[i].userName : i \in 1..Len(out.loaded.tx.rows)}

\* C1: with a non-empty selected_users the user filter keeps exactly the
\* transaction rows whose userName, and the balance rows whose Username, is
\* selected; with an empty selected_users both frames pass unchanged.
C1_UserFilter ==
    FiltersRan =>
        IF out.selected_users # {}
        THEN /\ ExactlyRows(out.byUser.tx.rows, out.loaded.tx.rows,
                    {i \in 1..Len(out.loaded.tx.rows) :
                        out.loaded.tx.rows[i].userName \in out.selected_users})
             /\ ExactlyRows(out.byUser.bal.rows, out.loaded.bal.rows,
                    {i \in 1..Len(out.loaded.bal.rows) :
                        out.loaded.bal.rows[i].Username \in out.selected_users})
        ELSE out.byUser = out.loaded

\* A run whose user selection drops a transaction row and a balance row.
C1_Witness ==
    /\ FiltersRan
    /\ out.selected_users # {}
    /\ 0 < Len(out.byUser.tx.rows)
    /\ Len(out.byUser.tx.rows) < Len(out.loaded.tx.rows)
    /\ 0 < Len(out.byUser.bal.rows)
    /\ Len(out.byUser.bal.rows) < Len(out.loaded.bal.rows)

\* C2: for every selected_type, the empty one included, the type filter keeps
\* exactly the transaction rows whose type is selected (none when nothing is
\* selected) and leaves the balance frame as it is.
C2_TypeFilter ==
    FiltersRan =>
        /\ ExactlyRows(out.byType.tx.rows, out.byUser.tx.rows,
                {i \in 1..Len(out.byUser.tx.rows) :
                    out.byUser.tx.rows[i].type \in out.selected_type})
        /\ out.selected_type = {} => Len(out.byType.tx.rows) = 0
        /\ out.byType.bal = out.byUser.bal

\* A run with no type selected: all transactions go, the balance row stays.
C2_Witness ==
    /\ FiltersRan
    /\ out.selected_type = {}
    /\ Len(out.byUser.tx.rows) = MaxTx
    /\ Len(out.byType.tx.rows) = 0
    /\ Len(out.byType.bal.rows) > 0

\* C3: the date filter acts only on a range of two dates, and then keeps
\* exactly the transactions with a non-null timestamp whose calendar day lies
\* in [start, end], both days included.
C3_DateFilter ==
    FiltersRan =>
        IF Len(out.date_range) = 2
        THEN ExactlyRows(out.byDate.tx.rows, out.byType.tx.rows,
                {i \in 1..Len(out.byType.tx.rows) :
                    /\ out.byType.tx.rows[i].Timestamp.kind = "ok"
                    /\ out.date_range[1] <= out.byType.tx.rows[i].Timestamp.day
                    /\ out.byType.tx.rows[i].Timestamp.day <= out.date_range[2]})
        ELSE out.byDate.tx = out.byType.tx

\* C4: a run whose filtered transaction frame is empty reports a percentage
\* of 0 and completes without an error.
C4_ZeroTransactions ==
    (MetricsRan /\ out.metrics.total_transactions = 0) =>
        /\ out.status = "done"
        /\ out.metrics.percent.num = 0

\* C5: a run whose filtered balance frame is empty reports an average
\* balance of 0 (a defined value, not NaN) and raises no error on it.
C5_ZeroUsers ==
    (MetricsRan /\ out.metrics.total_users = 0) =>
        /\ ~out.metrics.avg_balance.isNaN
        /\ out.metrics.avg_balance.num = 0

\* C7: a run over a sheet with a malformed Timestamp cell does not abort on
\* it: the row is kept and its timestamp is null.
C7_MalformedTimestamp ==
    (/\ out.status # "none"
     /\ cache["Transactions"].present
     /\ \E i \in 1..Len(cache["Transactions"].value) :
            cache["Transactions"].value[i].Timestamp.kind = "bad") =>
        /\ out.status # "ValueError"
        /\ Len(out.loaded.tx.rows) = Len(cache["Transactions"].value)
        /\ \A i \in 1..Len(cache["Transactions"].value) :
              cache["Transactions"].value[i].Timestamp.kind = "bad" =>
                  out.loaded.tx.rows[i].Timestamp = NaT

\* C8: the scalar metrics are those of the filtered frames: row counts,
\* the count of balances above zero, the sum of the balances, the count of
\* amounts above zero; so active <= total users and positive <= total
\* transactions.
C8_Metrics ==
    MetricsRan =>
        /\ Len(out.df_balances.rows) = Len(out.byDate.bal.rows)
        /\ Len(out.df_transactions.rows) = Len(out.byDate.tx.rows)
        /\ out.metrics.total_users = Len(out.byDate.bal.rows)
        /\ out.metrics.active_users =
              Cardinality({i \in 1..Len(out.byDate.bal.rows) :
                              out.byDate.bal.rows[i].CurrentBalance > 0})
        /\ out.metrics.total_balance =
              SumAt(out.byDate.bal.rows, 1..Len(out.byDate.bal.rows))
        /\ out.metrics.total_transactions = Len(out.byDate.tx.rows)
        /\ out.metrics.positive_transactions =
              Cardinality({i \in 1..Len(out.byDate.tx.rows) :
                              out.byDate.tx.rows[i].amount > 0})
        /\ out.metrics.active_users <= out.metrics.total_users
        /\ out.metrics.positive_transactions <= out.metrics.total_transactions

\* A completed run with an account at zero among several and a debit among
\* several transactions.
C8_Witness ==
    /\ out.status = "done"
    /\ 0 < out.metrics.active_users
    /\ out.metrics.active_users < out.metrics.total_users
    /\ 0 < out.metrics.positive_transactions
    /\ out.metrics.positive_transactions < out.metrics.total_transactions
    /\ out.metrics.total_balance > 0

\* C10: the users that can be selected are the userName values of the
\* transaction table.  So with a non-empty selection no balance row of a user
\* without transactions is in the filtered balances or in total_users and
\* total_balance; with an empty selection every balance row is counted.
C10_UsersFromTransactions ==
    /\ FiltersRan => out.selected_users \subseteq TxUserNames
    /\ (FiltersRan /\ out.selected_users # {}) =>
          \A i \in 1..Len(out.byUser.bal.rows) :
              out.byUser.bal.rows[i].Username \in TxUserNames
    /\ (MetricsRan /\ out.selected_users # {}) =>
          /\ out.metrics.total_users =
                Cardinality({i \in 1..Len(out.loaded.bal.rows) :
                                /\ out.loaded.bal.rows[i].Username \in TxUserNames
                                /\ out.loaded.bal.rows[i].Username \in out.selected_users})
          /\ out.metrics.total_balance =
                SumAt(out.loaded.bal.rows,
                      {i \in 1..Len(out.loaded.bal.rows) :
                          /\ out.loaded.bal.rows[i].Username \in TxUserNames
                          /\ out.loaded.bal.rows[i].Username \in out.selected_users})
    /\ (MetricsRan /\ out.selected_users = {}) =>
          out.metrics.total_users = Len(out.loaded.bal.rows)

\* A run with every user selected that leaves out the balance of a user who
\* has no transaction.
C10_Witness ==
    /\ MetricsRan
    /\ out.selected_users = TxUserNames
    /\ out.selected_users # {}
    /\ \E i \in 1..Len(out.loaded.bal.rows) :
          /\ out.loaded.bal.rows[i].Username \notin TxUserNames
          /\ out.loaded.bal.rows[i].CurrentBalance > 0
    /\ out.metrics.total_users < Len(out.loaded.bal.rows)
    /\ out.metrics.total_users > 0

\* A step in which the script ran (a clock step and a sheet edit leave both
\* the store and the run alone).
CycleStep == out' # out \/ cache' # cache

\* C6: a run that starts while an entry is younger than five minutes, with no
\* refresh, takes that table from the store and does not read the sheet; a
\* refresh empties the store and its run reads both tables from the sheet
\* again, whatever their age.
C6_FetchCache ==
    [][CycleStep =>
        /\ out'.trigger = "rerun" =>
              \A n \in Tables :
                  (cache[n].present /\ now - cache[n].at < TTL) =>
                      (n \notin out'.fetched /\ cache'[n] = cache[n])
        /\ out'.trigger = "refresh" =>
              /\ out'.fetched = Tables
              /\ \A n \in Tables :
                    /\ cache'[n].present
                    /\ cache'[n].at = now
                    /\ cache'[n].value = sheet[n]]_vars

\* A run made some time after the fetch, served from the store although the
\* sheet has changed since.
C6_Witness ==
    /\ out.trigger = "rerun"
    /\ out.status = "done"
    /\ out.fetched = {}
    /\ cache["Transactions"].present
    /\ out.at > cache["Transactions"].at
    /\ out.at > cache["CurrentBalances"].at
    /\ Len(sheet["Transactions"]) > Len(cache["Transactions"].value)
    /\ Len(out.loaded.tx.rows) = Len(cache["Transactions"].value)

\* C9: no run changes the records the store holds: an entry changes only by a
\* fetch, and then holds the sheet's records as fetched; a run served from the
\* store sees every stored row with its values.
C9_SourceIntact ==
    [][/\ \A n \in Tables :
            \/ cache'[n] = cache[n]
            \/ /\ n \in out'.fetched
               /\ cache'[n] = [present |-> TRUE, value |-> sheet[n], at |-> now]
       /\ (CycleStep /\ out'.fetched = {} /\ out'.line \notin {95, 109}) =>
            /\ Len(out'.loaded.tx.rows) = Len(cache["Transactions"].value)
            /\ \A i \in 1..Len(cache["Transactions"].value) :
                  /\ out'.loaded.tx.rows[i].userName = cache["Transactions"].value[i].userName
                  /\ out'.loaded.tx.rows[i].type = cache["Transactions"].value[i].type
                  /\ out'.loaded.tx.rows[i].amount = cache["Transactions"].value[i].amount
                  /\ out'.loaded.tx.rows[i].phoneNumber = cache["Transactions"].value[i].phoneNumber
            /\ Len(out'.loaded.bal.rows) = Len(cache["CurrentBalances"].value)
            /\ \A i \in 1..Len(cache["CurrentBalances"].value) :
                  /\ out'.loaded.bal.rows[i].Username = cache["CurrentBalances"].value[i].Username
                  /\ out'.loaded.bal.rows[i].CurrentBalance =
                        cache["CurrentBalances"].value[i].CurrentBalance
                  /\ out'.loaded.bal.rows[i].Phone = cache["CurrentBalances"].value[i].Phone]_vars

\* A run served from the store that filtered transactions out and converted
\* the Phone column of the loaded balances in place, the store still holding
\* every row as it was fetched.
C9_Witness ==
    /\ out.status = "done"
    /\ out.fetched = {}
    /\ out.selected_users = {}
    /\ Len(out.df_transactions.rows) < Len(cache["Transactions"].value)
    /\ Len(out.df_balances.rows) > 0
    /\ out.df_balances.rows[1].Phone.dtype = "object"
    /\ cache["CurrentBalances"].value = sheet["CurrentBalances"]
    /\ cache["CurrentBalances"].value[1].Phone.dtype = "int64"
    /\ cache["Transactions"].value[1].Timestamp.dtype = "object"

====
